---- MODULE Spec2Model ----
(***************************************************************************)
(* A model of cellular-ts: the voxel grid (GridDimensions, CellGrid), the  *)
(* generation transition (GridState), face extraction (Face) and animated  *)
(* faces (AnimFace), driven as main.ts drives them.                        *)
(*                                                                         *)
(* A TypeScript array is a sequence; the element with TS index i is the    *)
(* element i + 1 of the sequence.  The two absent values of the language   *)
(* are the integers Null and Undefined (no cell state is negative).        *)
(* Fractional numbers are exact rationals [n, d] in lowest terms; every    *)
(* fraction the model computes is dyadic and short, so the double          *)
(* arithmetic of the program is exact on it.                               *)
(***************************************************************************)
EXTENDS Integers, Sequences, FiniteSets, TLC

VARIABLES pc, gen, gridState, faces, op, arg, ret

vars == <<pc, gen, gridState, faces, op, arg, ret>>

(***************************************************************************)
(* Bounds of the model.                                                    *)
(***************************************************************************)
MaxStates == 3     \* state counts (palette sizes) range over 2..MaxStates
MaxGen == 2        \* generations the driver advances
MaxSkip == 2       \* iteration counts passed to skipUpdates range over 0..MaxSkip
MaxPop == 2        \* nonzero cells of a grid drawn as an input of the grid queries
MaxExtent == 2     \* half-extents of the dimensions that are iterated range over 1..MaxExtent
MaxOccluders == 2  \* visible cells of the AO grid a face is built against
MaxQuads == 2      \* quads before the one whose indices are asked for: 0..MaxQuads-1

\* null and undefined where a number is expected ...
Null == -1
Undefined == -2
\* ... and where an object is expected.
NullRef == [null |-> TRUE]
UndefinedRef == [undefined |-> TRUE]

\* The half-extents the grids are built with.
DimsSet == {[X |-> 1, Y |-> 1, Z |-> 1]}

\* The rules the driver is run with.
Rules == {"main", "decay"}

(***************************************************************************)
(* Language helpers.                                                       *)
(***************************************************************************)
\* cells[i]: a read outside the array yields undefined.
ArrayGet(cells, i) ==
  IF i >= 0 /\ i < Len(cells) THEN cells[i + 1] ELSE Undefined

\* v != null (loose inequality: false for both null and undefined).
NotNullish(v) == v # Null /\ v # Undefined

\* Array<number>(n): an array of n holes; a hole reads as undefined.
NewArray(n) == [i \in 1..n |-> Undefined]

\* Array<number>(n).fill(v)
Filled(n, v) == [i \in 1..n |-> v]

(***************************************************************************)
(* GridDimensions                                                          *)
(***************************************************************************)
indexOf(dims, x, y, z) ==
  (x + dims.X) * 4 * dims.Y * dims.Z + (y + dims.Y) * 2 * dims.Z + (z + dims.Z)

inBounds(dims, x, y, z) ==
  /\ x >= -dims.X /\ x < dims.X
  /\ y >= -dims.Y /\ y < dims.Y
  /\ z >= -dims.Z /\ z <= dims.Z

\* next(): from the iterator state (i, j, k) to the result and the new state.
IterNextInclusive(dims, i, j, k) ==
  LET wrapK == k > dims.Z
      k1 == IF wrapK THEN -dims.Z ELSE k
      j1 == IF wrapK THEN j + 1 ELSE j
      wrapJ == j1 >= dims.Y
      j2 == IF wrapJ THEN -dims.Y ELSE j1
      i2 == IF wrapJ THEN i + 1 ELSE i
  IN [done |-> i2 >= dims.X, value |-> <<i2, j2, k1>>, i |-> i2, j |-> j2, k |-> k1 + 1]

IterNext(dims, i, j, k) ==
  LET wrapK == k >= dims.Z
      k1 == IF wrapK THEN -dims.Z ELSE k
      j1 == IF wrapK THEN j + 1 ELSE j
      wrapJ == j1 >= dims.Y
      j2 == IF wrapJ THEN -dims.Y ELSE j1
      i2 == IF wrapJ THEN i + 1 ELSE i
  IN [done |-> i2 >= dims.X, value |-> <<i2, j2, k1>>, i |-> i2, j |-> j2, k |-> k1 + 1]

\* The iterator: the triples next() yields before it reports done, from the
\* iterator state (i, j, k).
RECURSIVE IterFrom(_, _, _, _)
IterFrom(dims, i, j, k) ==
  LET r == IterNext(dims, i, j, k)
  IN IF r.done THEN <<>>
     ELSE <<r.value>> \o IterFrom(dims, r.i, r.j, r.k)

Iterate(dims) == IterFrom(dims, -dims.X, -dims.Y, -dims.Z)

(***************************************************************************)
(* CellGrid                                                                *)
(***************************************************************************)
CellGrid(dims, cells, states) == [dims |-> dims, cells |-> cells, states |-> states]

Size(dims) == 8 * dims.X * dims.Y * dims.Z

makeEmpty(dims, states) == CellGrid(dims, Filled(Size(dims), 0), states)

makeFull(dims, states) == CellGrid(dims, Filled(Size(dims), 1), states)

\* draws[i] is TRUE when the i-th call of Math.random() is below prob.  The
\* constructor is called without the states argument, so it takes its default.
makeRandom(dims, draws, states) ==
  CellGrid(dims, [i \in 1..Size(dims) |-> IF draws[i] THEN states - 1 ELSE 0], 2)

\* makeFromCells accepting an array that is long enough.
makeFromCellsLoose(dims, cells, states) ==
  IF Size(dims) <= Len(cells) THEN CellGrid(dims, cells, states) ELSE NullRef

makeFromCells(dims, cells, states) ==
  IF Size(dims) = Len(cells) THEN CellGrid(dims, cells, states) ELSE NullRef

getCell(g, x, y, z) ==
  IF inBounds(g.dims, x, y, z) THEN ArrayGet(g.cells, indexOf(g.dims, x, y, z)) ELSE Null

isVisible(g, x, y, z) ==
  LET cell == getCell(g, x, y, z) IN NotNullish(cell) /\ cell > 0

isLive(g, x, y, z) ==
  LET cell == getCell(g, x, y, z) IN NotNullish(cell) /\ cell = g.states - 1

neighbourPop(g, x, y, z) ==
  LET count == Cardinality({n \in ((x - 1)..(x + 1)) \X ((y - 1)..(y + 1)) \X ((z - 1)..(z + 1)) :
                              isLive(g, n[1], n[2], n[3])})
  IN IF isLive(g, x, y, z) THEN count - 1 ELSE count

(***************************************************************************)
(* The automaton rules (current, neighbours) -> next state.                *)
(***************************************************************************)
ApplyRule(rule, current, neighbours) ==
  CASE rule = "main" ->
         IF (current > 0 /\ neighbours >= 5 /\ neighbours <= 7)
              \/ (current = 0 /\ neighbours = 1) THEN 1 ELSE 0
    [] rule = "decay" ->
         IF current = 0 /\ neighbours = 1 THEN 2
         ELSE IF current = 0 \/ (current = 2 /\ neighbours = 1) THEN current
         ELSE current - 1

(***************************************************************************)
(* GridState                                                               *)
(***************************************************************************)
GridState(grid, oldGrid, core) == [grid |-> grid, oldGrid |-> oldGrid, core |-> core]

makeFromGrid(grid) == GridState(grid, grid, grid)

\* The body of the loop of makeUpdated, run over the coordinates still to come.
RECURSIVE UpdateLoop(_, _, _, _, _)
UpdateLoop(oldGrid, rule, coords, newCells, newCore) ==
  IF coords = <<>> THEN [cells |-> newCells, core |-> newCore]
  ELSE LET x == Head(coords)[1]
           y == Head(coords)[2]
           z == Head(coords)[3]
           index == indexOf(oldGrid.dims, x, y, z)
           cells1 == [newCells EXCEPT ![index + 1] =
                        ApplyRule(rule, getCell(oldGrid, x, y, z), neighbourPop(oldGrid, x, y, z))]
           core1 == IF cells1[index + 1] > 0 /\ isVisible(oldGrid, x, y, z)
                    THEN [newCore EXCEPT ![index + 1] = 1]
                    ELSE newCore
       IN UpdateLoop(oldGrid, rule, Tail(coords), cells1, core1)

\* makeUpdated reading the grid the old state was itself updated from.
makeUpdatedStale(oldState, rule) ==
  LET oldGrid == oldState.oldGrid
      dims == oldGrid.dims
      out == UpdateLoop(oldGrid, rule, Iterate(dims), NewArray(Size(dims)), NewArray(Size(dims)))
  IN GridState(makeFromCells(dims, out.cells, oldGrid.states),
               oldGrid,
               makeFromCells(dims, out.core, 2))

makeUpdated(oldState, rule) ==
  LET oldGrid == oldState.grid
      dims == oldGrid.dims
      out == UpdateLoop(oldGrid, rule, Iterate(dims), NewArray(Size(dims)), NewArray(Size(dims)))
  IN GridState(makeFromCells(dims, out.cells, oldGrid.states),
               oldGrid,
               makeFromCells(dims, out.core, 2))

\* The keys a for-in loop over the object literal { length: iterations } visits.
ForInKeys(iterations) == <<"length">>

RECURSIVE SkipLoop(_, _, _)
SkipLoop(currentState, rule, keys) ==
  IF keys = <<>> THEN currentState
  ELSE SkipLoop(makeUpdated(currentState, rule), rule, Tail(keys))

skipUpdates(initState, rule, iterations) ==
  SkipLoop(initState, rule, ForInKeys(iterations))

(***************************************************************************)
(* Exact fractions.                                                        *)
(***************************************************************************)
RECURSIVE GCD(_, _)
GCD(a, b) == IF b = 0 THEN a ELSE GCD(b, a % b)

Abs(a) == IF a < 0 THEN -a ELSE a

Rat(n, d) ==
  LET g == GCD(Abs(n), Abs(d))
      s == IF d < 0 THEN -1 ELSE 1
  IN [n |-> (s * n) \div g, d |-> (s * d) \div g]

Num(k) == [n |-> k, d |-> 1]

RAdd(a, b) ==
  LET l == (a.d \div GCD(a.d, b.d)) * b.d
  IN Rat(a.n * (l \div a.d) + b.n * (l \div b.d), l)

RSub(a, b) == RAdd(a, [n |-> -b.n, d |-> b.d])

RMul(a, b) ==
  LET g1 == GCD(Abs(a.n), b.d)
      g2 == GCD(Abs(b.n), a.d)
      h1 == IF g1 = 0 THEN 1 ELSE g1
      h2 == IF g2 = 0 THEN 1 ELSE g2
  IN Rat((a.n \div h1) * (b.n \div h2), (a.d \div h2) * (b.d \div h1))

RLess(a, b) == a.n * b.d < b.n * a.d

RMax(a, b) == IF RLess(a, b) THEN b ELSE a

RMin(a, b) == IF RLess(b, a) THEN b ELSE a

\* The animation progress values a frame is evaluated at.
Progresses == {Rat(0, 1), Rat(1, 4), Rat(1, 2), Rat(3, 4), Rat(1, 1)}

(***************************************************************************)
(* Utils                                                                   *)
(***************************************************************************)
clamp(val, min, max) == RMin(RMax(val, min), max)

smoothStep(control) ==
  LET c == clamp(control, Num(0), Num(1))
  IN clamp(RMul(RMul(c, c), RSub(Num(3), RMul(Num(2), c))), Num(0), Num(1))

mix(a, b, control) == RAdd(RMul(control, b), RMul(RSub(Num(1), control), a))

mix4(a, b, control) ==
  << mix(a[1], b[1], smoothStep(control)),
     mix(a[2], b[2], smoothStep(control)),
     mix(a[3], b[3], smoothStep(control)),
     mix(a[4], b[4], smoothStep(control)) >>

(***************************************************************************)
(* Face                                                                    *)
(***************************************************************************)
XNEG == 0
YPOS == 1
ZNEG == 2

SIDES == <<XNEG, YPOS, ZNEG>>

directions == << <<-1, 0, 0>>, <<0, 1, 0>>, <<0, 0, -1>> >>

Face(x, y, z, side, aos) == [x |-> x, y |-> y, z |-> z, side |-> side, aos |-> aos]

Ones == <<Num(1), Num(1), Num(1), Num(1)>>

vertexAO(side1, side2, corner) ==
  IF side1 /\ side2 THEN Rat(1, 4)
  ELSE IF (side1 /\ corner) \/ (side2 /\ corner) THEN Rat(1, 2)
  ELSE IF side1 \/ side2 \/ corner THEN Rat(3, 4)
  ELSE Num(1)

\* sideAOs returning the values in clockwise order around the face.
sideAOsClockwise(adj) ==
  IF Len(adj) # 8 THEN Ones
  ELSE << vertexAO(adj[1], adj[3], adj[2]),
          vertexAO(adj[3], adj[5], adj[4]),
          vertexAO(adj[5], adj[7], adj[6]),
          vertexAO(adj[1], adj[7], adj[8]) >>

sideAOs(adj) ==
  IF Len(adj) # 8 THEN Ones
  ELSE << vertexAO(adj[1], adj[3], adj[2]),
          vertexAO(adj[3], adj[5], adj[4]),
          vertexAO(adj[1], adj[7], adj[8]),
          vertexAO(adj[5], adj[7], adj[6]) >>

faceAOs(cellGrid, x, y, z, side) ==
  CASE side = XNEG ->
         sideAOs(<< isVisible(cellGrid, x - 1, y,     z + 1),
                    isVisible(cellGrid, x - 1, y - 1, z + 1),
                    isVisible(cellGrid, x - 1, y - 1, z),
                    isVisible(cellGrid, x - 1, y - 1, z - 1),
                    isVisible(cellGrid, x - 1, y,     z - 1),
                    isVisible(cellGrid, x - 1, y + 1, z - 1),
                    isVisible(cellGrid, x - 1, y + 1, z),
                    isVisible(cellGrid, x - 1, y + 1, z + 1) >>)
    [] side = YPOS ->
         sideAOs(<< isVisible(cellGrid, x,     y + 1, z + 1),
                    isVisible(cellGrid, x - 1, y + 1, z + 1),
                    isVisible(cellGrid, x - 1, y + 1, z),
                    isVisible(cellGrid, x - 1, y + 1, z - 1),
                    isVisible(cellGrid, x,     y + 1, z - 1),
                    isVisible(cellGrid, x + 1, y + 1, z - 1),
                    isVisible(cellGrid, x + 1, y + 1, z),
                    isVisible(cellGrid, x + 1, y + 1, z + 1) >>)
    [] side = ZNEG ->
         sideAOs(<< isVisible(cellGrid, x - 1, y,     z - 1),
                    isVisible(cellGrid, x - 1, y - 1, z - 1),
                    isVisible(cellGrid, x,     y - 1, z - 1),
                    isVisible(cellGrid, x + 1, y - 1, z - 1),
                    isVisible(cellGrid, x + 1, y,     z - 1),
                    isVisible(cellGrid, x + 1, y + 1, z - 1),
                    isVisible(cellGrid, x,     y + 1, z - 1),
                    isVisible(cellGrid, x - 1, y + 1, z - 1) >>)

\* seq.map(f) and seq.filter(p) over the sides.
makeAllPos(x, y, z, aos) == [i \in 1..Len(SIDES) |-> Face(x, y, z, SIDES[i], aos)]

SideUnoccluded(cellGrid, x, y, z, side) ==
  LET dir == directions[side + 1]
  IN ~isVisible(cellGrid, x + dir[1], y + dir[2], z + dir[3])

\* Face.makeFromCell computing the AO against cellGrid.
FaceMakeFromCellSelfAO(cellGrid, x, y, z, aoGrid) ==
  IF ~isVisible(cellGrid, x, y, z) THEN <<>>
  ELSE LET visSides == SelectSeq(SIDES, LAMBDA side : SideUnoccluded(cellGrid, x, y, z, side))
       IN [i \in 1..Len(visSides) |->
             Face(x, y, z, visSides[i], faceAOs(cellGrid, x, y, z, visSides[i]))]

FaceMakeFromCell(cellGrid, x, y, z, aoGrid) ==
  IF ~isVisible(cellGrid, x, y, z) THEN <<>>
  ELSE LET visSides == SelectSeq(SIDES, LAMBDA side : SideUnoccluded(cellGrid, x, y, z, side))
       IN [i \in 1..Len(visSides) |->
             Face(x, y, z, visSides[i], faceAOs(aoGrid, x, y, z, visSides[i]))]

\* makeAllFromCell culling the faces whose outward neighbour is visible.
makeAllFromCellCulled(x, y, z, aoGrid) == FaceMakeFromCell(aoGrid, x, y, z, aoGrid)

makeAllFromCell(x, y, z, aoGrid) ==
  [i \in 1..Len(SIDES) |-> Face(x, y, z, SIDES[i], faceAOs(aoGrid, x, y, z, SIDES[i]))]

(***************************************************************************)
(* AnimFace                                                                *)
(***************************************************************************)
AnimFace(start, end, type) == [start |-> start, end |-> end, type |-> type]

makeGrowing(end) == AnimFace(NullRef, end, "GROW")

makeShrinking(start) == AnimFace(start, NullRef, "SHRINK")

makeTransition(start, end, type) == AnimFace(start, end, type)

\* endFaces[i] for a 0-based i: undefined past the end of the list.
FaceAt(list, i) == IF i >= 0 /\ i < Len(list) THEN list[i + 1] ELSE UndefinedRef

\* makeFromCell with the AO grids of the two endpoints of a persisting face
\* exchanged.
makeFromCellSwapped(state, x, y, z) ==
  LET cellStart == isVisible(state.oldGrid, x, y, z)
      cellEnd == isVisible(state.grid, x, y, z)
  IN IF ~cellStart /\ ~cellEnd THEN <<>>
     ELSE IF ~cellStart THEN
       LET endFaces == makeAllFromCell(x, y, z, state.grid)
       IN [i \in 1..Len(endFaces) |-> makeGrowing(endFaces[i])]
     ELSE IF ~cellEnd THEN
       LET startFaces == makeAllFromCell(x, y, z, state.oldGrid)
       IN [i \in 1..Len(startFaces) |-> makeShrinking(startFaces[i])]
     ELSE
       LET startFaces == FaceMakeFromCell(state.core, x, y, z, state.grid)
           endFaces == FaceMakeFromCell(state.core, x, y, z, state.oldGrid)
       IN [i \in 1..Len(startFaces) |->
             makeTransition(startFaces[i], FaceAt(endFaces, i - 1), "AO_ONLY")]

\* makeFromCell culling the end faces of a persisting cell against the new
\* grid instead of core.
makeFromCellCullNew(state, x, y, z) ==
  LET cellStart == isVisible(state.oldGrid, x, y, z)
      cellEnd == isVisible(state.grid, x, y, z)
  IN IF ~cellStart /\ ~cellEnd THEN <<>>
     ELSE IF ~cellStart THEN
       LET endFaces == makeAllFromCell(x, y, z, state.grid)
       IN [i \in 1..Len(endFaces) |-> makeGrowing(endFaces[i])]
     ELSE IF ~cellEnd THEN
       LET startFaces == makeAllFromCell(x, y, z, state.oldGrid)
       IN [i \in 1..Len(startFaces) |-> makeShrinking(startFaces[i])]
     ELSE
       LET startFaces == FaceMakeFromCell(state.core, x, y, z, state.oldGrid)
           endFaces == FaceMakeFromCell(state.grid, x, y, z, state.grid)
       IN [i \in 1..Len(startFaces) |->
             makeTransition(startFaces[i], FaceAt(endFaces, i - 1), "AO_ONLY")]

\* makeFromCell culling the faces of a persisting cell against the grid each
\* endpoint is shaded with, instead of core.
makeFromCellNoCore(state, x, y, z) ==
  LET cellStart == isVisible(state.oldGrid, x, y, z)
      cellEnd == isVisible(state.grid, x, y, z)
  IN IF ~cellStart /\ ~cellEnd THEN <<>>
     ELSE IF ~cellStart THEN
       LET endFaces == makeAllFromCell(x, y, z, state.grid)
       IN [i \in 1..Len(endFaces) |-> makeGrowing(endFaces[i])]
     ELSE IF ~cellEnd THEN
       LET startFaces == makeAllFromCell(x, y, z, state.oldGrid)
       IN [i \in 1..Len(startFaces) |-> makeShrinking(startFaces[i])]
     ELSE
       LET startFaces == FaceMakeFromCell(state.grid, x, y, z, state.oldGrid)
           endFaces == FaceMakeFromCell(state.grid, x, y, z, state.grid)
       IN [i \in 1..Len(startFaces) |->
             makeTransition(startFaces[i], FaceAt(endFaces, i - 1), "AO_ONLY")]

makeFromCell(state, x, y, z) ==
  LET cellStart == isVisible(state.oldGrid, x, y, z)
      cellEnd == isVisible(state.grid, x, y, z)
  IN IF ~cellStart /\ ~cellEnd THEN <<>>
     ELSE IF ~cellStart THEN
       LET endFaces == makeAllFromCell(x, y, z, state.grid)
       IN [i \in 1..Len(endFaces) |-> makeGrowing(endFaces[i])]
     ELSE IF ~cellEnd THEN
       LET startFaces == makeAllFromCell(x, y, z, state.oldGrid)
       IN [i \in 1..Len(startFaces) |-> makeShrinking(startFaces[i])]
     ELSE
       LET startFaces == FaceMakeFromCell(state.core, x, y, z, state.oldGrid)
           endFaces == FaceMakeFromCell(state.core, x, y, z, state.grid)
       IN [i \in 1..Len(startFaces) |->
             makeTransition(startFaces[i], FaceAt(endFaces, i - 1), "AO_ONLY")]

RECURSIVE FacesLoop(_, _, _)
FacesLoop(state, coords, acc) ==
  IF coords = <<>> THEN acc
  ELSE FacesLoop(state, Tail(coords),
                 acc \o makeFromCell(state, Head(coords)[1], Head(coords)[2], Head(coords)[3]))

makeFromGridState(state) == FacesLoop(state, Iterate(state.grid.dims), <<>>)

getAOs(face, progress) ==
  LET control == smoothStep(progress)
  IN CASE face.type = "GROW" -> mix4(Ones, face.end.aos, control)
       [] face.type = "SHRINK" -> mix4(face.start.aos, Ones, control)
       [] face.type \in {"TRANSITION", "AO_ONLY"} -> mix4(face.start.aos, face.end.aos, control)

\* list.flat(1) of a list of tuples
RECURSIVE Flat(_)
Flat(list) == IF list = <<>> THEN <<>> ELSE Head(list) \o Flat(Tail(list))

(***************************************************************************)
(* Geometry: Utils.mix3, Face.getVertices / getIndices / getNorm and       *)
(* AnimFace.getVertices / getNorm / getIndices.                            *)
(***************************************************************************)
mix3(a, b, control) ==
  << mix(a[1], b[1], smoothStep(control)),
     mix(a[2], b[2], smoothStep(control)),
     mix(a[3], b[3], smoothStep(control)) >>

\* Math.cos at the arguments 10 * progress * progress of the progress values
\* a frame is evaluated at: exact at 0, rounded to 1/1024 elsewhere.
Cos(x) ==
  CASE x = Num(0) -> Num(1)
    [] x = Rat(5, 8) -> Rat(830, 1024)
    [] x = Rat(5, 2) -> Rat(-820, 1024)
    [] x = Rat(45, 8) -> Rat(810, 1024)
    [] x = Num(10) -> Rat(-859, 1024)

relPositions ==
  << << <<0, 0, 1>>, <<0, 0, 0>>, <<0, 1, 1>>, <<0, 1, 0>> >>,
     << <<0, 1, 1>>, <<0, 1, 0>>, <<1, 1, 1>>, <<1, 1, 0>> >>,
     << <<0, 0, 0>>, <<1, 0, 0>>, <<0, 1, 0>>, <<1, 1, 0>> >> >>

Half == Rat(1, 2)

FaceGetVertices(face, scale) ==
  [i \in 1..4 |->
     LET rel == relPositions[face.side + 1][i]
     IN << RAdd(RMul(scale, RSub(Num(rel[1]), Half)), Num(face.x)),
           RAdd(RMul(scale, RSub(Num(rel[2]), Half)), Num(face.y)),
           RAdd(RMul(scale, RSub(Num(rel[3]), Half)), Num(face.z)) >>]

\* Face.getIndices resolving a tie to the diagonal between vertices 1 and 2.
FaceGetIndicesTies(face, offset) ==
  IF ~RLess(RAdd(face.aos[2], face.aos[3]), RAdd(face.aos[1], face.aos[4]))
  THEN <<offset, offset + 1, offset + 2, offset + 1, offset + 2, offset + 3>>
  ELSE <<offset, offset + 3, offset + 1, offset, offset + 2, offset + 3>>

FaceGetIndices(face, offset) ==
  IF RLess(RAdd(face.aos[1], face.aos[4]), RAdd(face.aos[2], face.aos[3]))
  THEN <<offset, offset + 1, offset + 2, offset + 1, offset + 2, offset + 3>>
  ELSE <<offset, offset + 3, offset + 1, offset, offset + 2, offset + 3>>

FaceGetNorm(face) == directions[face.side + 1]

\* getVertices with the two ends of the easing of an appearing face exchanged.
getVerticesSwapped(face, progress) ==
  CASE face.type = "GROW" ->
         FaceGetVertices(face.end,
                         mix(Num(1),
                             RSub(Num(1), Cos(RMul(Num(10), RMul(progress, progress)))),
                             smoothStep(progress)))
    [] face.type = "SHRINK" ->
         FaceGetVertices(face.start, RSub(Num(1), smoothStep(RMul(Num(2), progress))))
    [] face.type = "TRANSITION" ->
         LET endVerts == FaceGetVertices(face.end, Num(1))
             startVerts == FaceGetVertices(face.start, Num(1))
         IN [i \in 1..4 |-> mix3(startVerts[i], endVerts[i], smoothStep(progress))]
    [] face.type = "AO_ONLY" -> FaceGetVertices(face.start, Num(1))

getVertices(face, progress) ==
  CASE face.type = "GROW" ->
         FaceGetVertices(face.end,
                         mix(RSub(Num(1), Cos(RMul(Num(10), RMul(progress, progress)))),
                             Num(1),
                             smoothStep(progress)))
    [] face.type = "SHRINK" ->
         FaceGetVertices(face.start, RSub(Num(1), smoothStep(RMul(Num(2), progress))))
    [] face.type = "TRANSITION" ->
         LET endVerts == FaceGetVertices(face.end, Num(1))
             startVerts == FaceGetVertices(face.start, Num(1))
         IN [i \in 1..4 |-> mix3(startVerts[i], endVerts[i], smoothStep(progress))]
    [] face.type = "AO_ONLY" -> FaceGetVertices(face.start, Num(1))

\* getIndices taking the end face of a persisting face.
getIndicesSettled(face, offset) ==
  IF face.type = "SHRINK" THEN FaceGetIndices(face.start, offset)
  ELSE FaceGetIndices(face.end, offset)

getIndices(face, offset) ==
  IF face.type = "GROW" THEN FaceGetIndices(face.end, offset)
  ELSE FaceGetIndices(face.start, offset)

(***************************************************************************)
(* The driver (main.ts): build an initial grid, then advance generations,  *)
(* rebuild the animated faces and evaluate them frame by frame.            *)
(***************************************************************************)
StateCounts == 2..MaxStates

\* The coordinates a query is made at: the cuboid and one step around it.
ProbeCoords(dims) ==
  ((-dims.X - 1)..dims.X) \X ((-dims.Y - 1)..dims.Y) \X ((-dims.Z - 1)..dims.Z)

\* The coordinates of the cuboid.
Cuboid(dims) == ((-dims.X)..(dims.X - 1)) \X ((-dims.Y)..(dims.Y - 1)) \X ((-dims.Z)..(dims.Z - 1))

\* The cell arrays and random draws grids are built from: at most MaxPop
\* cells are nonzero.
InputCells(dims, states) ==
  {cells \in [1..Size(dims) -> 0..(states - 1)] :
     Cardinality({i \in 1..Size(dims) : cells[i] # 0}) <= MaxPop}

\* Cell arrays one element too short or too long.
MisfitCells(dims, states) ==
  {cells \in UNION {[1..n -> 0..(states - 1)] : n \in {Size(dims) - 1, Size(dims) + 1}} :
     Cardinality({i \in 1..Len(cells) : cells[i] # 0}) <= MaxPop}

InputDraws(dims) ==
  {draws \in [1..Size(dims) -> BOOLEAN] :
     Cardinality({i \in 1..Size(dims) : draws[i]}) <= MaxPop}

Init ==
  /\ pc = "start"
  /\ gen = 0
  /\ gridState = NullRef
  /\ faces = <<>>
  /\ op = "none"
  /\ arg = NullRef
  /\ ret = NullRef

\* let gridState = GridState.makeFromGrid(initGrid); let faces = AnimFace.makeFromGridState(gridState)
Begin(initGrid) ==
  /\ pc = "start"
  /\ pc' = "ready"
  /\ gen' = 0
  /\ gridState' = makeFromGrid(initGrid)
  /\ faces' = makeFromGridState(gridState')
  /\ ret' = initGrid

MakeEmpty(dims, states) ==
  /\ Begin(makeEmpty(dims, states))
  /\ op' = "makeEmpty"
  /\ arg' = [dims |-> dims, states |-> states]

MakeFull(dims, states) ==
  /\ Begin(makeFull(dims, states))
  /\ op' = "makeFull"
  /\ arg' = [dims |-> dims, states |-> states]

MakeRandom(dims, draws, states) ==
  /\ Begin(makeRandom(dims, draws, states))
  /\ op' = "makeRandom"
  /\ arg' = [dims |-> dims, draws |-> draws, states |-> states]

\* A null result leaves the driver without a grid: the run ends there.
MakeFromCells(dims, cells, states) ==
  /\ op' = "makeFromCells"
  /\ arg' = [dims |-> dims, cells |-> cells, states |-> states]
  /\ IF makeFromCells(dims, cells, states) # NullRef
     THEN Begin(makeFromCells(dims, cells, states))
     ELSE /\ pc = "start"
          /\ pc' = "rejected"
          /\ ret' = makeFromCells(dims, cells, states)
          /\ UNCHANGED <<gen, gridState, faces>>

\* The update branch of render().
Update(rule) ==
  /\ pc = "ready"
  /\ gen < MaxGen
  /\ gen' = gen + 1
  /\ gridState' = makeUpdated(gridState, rule)
  /\ faces' = makeFromGridState(gridState')
  /\ op' = "makeUpdated"
  /\ arg' = [state |-> gridState, rule |-> rule]
  /\ ret' = gridState'
  /\ UNCHANGED pc

\* The calls below leave the driver's grid state and faces as they are; the
\* run is not followed past them (it goes on as from the state before the call).
Call(name, input, output) ==
  /\ pc = "ready"
  /\ pc' = "called"
  /\ op' = name
  /\ arg' = input
  /\ ret' = output
  /\ UNCHANGED <<gen, gridState, faces>>

Skip(rule, iterations) ==
  Call("skipUpdates",
       [state |-> gridState, rule |-> rule, iterations |-> iterations],
       skipUpdates(gridState, rule, iterations))

BuildForCell(x, y, z) ==
  /\ pc = "ready"
  /\ <<x, y, z>> \in Cuboid(gridState.grid.dims)
  /\ Call("makeFromCell",
       [state |-> gridState, x |-> x, y |-> y, z |-> z],
          makeFromCell(gridState, x, y, z))

\* let aos = faces.map(face => face.getAOs(progress)).flat(1)
Frame(progress) ==
  Call("getAOs",
       [faces |-> faces, progress |-> progress],
       Flat([i \in 1..Len(faces) |-> getAOs(faces[i], progress)]))

\* makeFromCells on the cells and states of a grid of the current state.
Rebuild(g) ==
  Call("makeFromCells",
       [dims |-> g.dims, cells |-> g.cells, states |-> g.states],
       makeFromCells(g.dims, g.cells, g.states))

\* let vertices = faces.map(face => face.getVertices(progress)).flat(1)
FrameVertices(progress) ==
  Call("getVertices",
       [faces |-> faces, progress |-> progress],
       Flat([i \in 1..Len(faces) |-> getVertices(faces[i], progress)]))

\* faces.map((face, i) => face.getIndices(i * 4)).flat()
FrameIndices ==
  Call("getIndices",
       [faces |-> faces],
       Flat([i \in 1..Len(faces) |-> getIndices(faces[i], (i - 1) * 4)]))

Next ==
  \/ \E dims \in DimsSet, states \in StateCounts : MakeEmpty(dims, states)
  \/ \E dims \in DimsSet, states \in StateCounts : MakeFull(dims, states)
  \/ /\ pc = "start"
     /\ \E dims \in DimsSet, states \in StateCounts :
          \E draws \in InputDraws(dims) : MakeRandom(dims, draws, states)
  \/ /\ pc = "start"
     /\ \E dims \in DimsSet, states \in StateCounts :
          \E cells \in InputCells(dims, states) \cup MisfitCells(dims, states) :
            MakeFromCells(dims, cells, states)
  \/ \E rule \in Rules : Update(rule)
  \/ \E rule \in Rules, iterations \in 0..MaxSkip : Skip(rule, iterations)
  \/ \E dims \in DimsSet : \E c \in Cuboid(dims) : BuildForCell(c[1], c[2], c[3])
  \/ \E progress \in Progresses : Frame(progress)
  \/ \E progress \in Progresses : FrameVertices(progress)
  \/ FrameIndices
  \/ \E which \in {"grid", "oldGrid", "core"} : pc = "ready" /\ Rebuild(gridState[which])

Spec == Init /\ [][Next]_vars

(***************************************************************************)
(* The grid queries, applied to grids drawn from a bounded set.            *)
(***************************************************************************)
InputGrids ==
  UNION {{makeFromCells(dims, cells, states) : cells \in InputCells(dims, states)} :
           <<dims, states>> \in DimsSet \X StateCounts}

InitGrid ==
  /\ pc = "query"
  /\ gen = 0
  /\ gridState \in {makeFromGrid(g) : g \in InputGrids}
  /\ faces = <<>>
  /\ op = "none"
  /\ arg = NullRef
  /\ ret = NullRef

Query(name, x, y, z, out) ==
  /\ pc = "query"
  /\ pc' = "called"
  /\ op' = name
  /\ arg' = [grid |-> gridState.grid, x |-> x, y |-> y, z |-> z]
  /\ ret' = out
  /\ UNCHANGED <<gen, gridState, faces>>

QueryIndexOf(x, y, z) ==
  Query("indexOf", x, y, z,
        [inBounds |-> inBounds(gridState.grid.dims, x, y, z),
         index |-> indexOf(gridState.grid.dims, x, y, z)])

QueryGetCell(x, y, z) == Query("getCell", x, y, z, getCell(gridState.grid, x, y, z))

QueryIsVisible(x, y, z) == Query("isVisible", x, y, z, isVisible(gridState.grid, x, y, z))

QueryIsLive(x, y, z) == Query("isLive", x, y, z, isLive(gridState.grid, x, y, z))

QueryNeighbourPop(x, y, z) ==
  Query("neighbourPop", x, y, z, neighbourPop(gridState.grid, x, y, z))

NextGrid ==
  \/ \E c \in ProbeCoords(gridState.grid.dims) : QueryIndexOf(c[1], c[2], c[3])
  \/ \E c \in ProbeCoords(gridState.grid.dims) : QueryGetCell(c[1], c[2], c[3])
  \/ \E c \in ProbeCoords(gridState.grid.dims) : QueryIsVisible(c[1], c[2], c[3])
  \/ \E c \in ProbeCoords(gridState.grid.dims) : QueryIsLive(c[1], c[2], c[3])
  \/ \E c \in ProbeCoords(gridState.grid.dims) : QueryNeighbourPop(c[1], c[2], c[3])

SpecGrid == InitGrid /\ [][NextGrid]_vars

(***************************************************************************)
(* Properties.                                                             *)
(***************************************************************************)
\* The stored state of a cell of the cuboid.
StoredCell(g, c) == g.cells[indexOf(g.dims, c[1], c[2], c[3]) + 1]

InCuboid(dims, x, y, z) == <<x, y, z>> \in Cuboid(dims)

\* C1: after new = makeUpdated(old, rule), every coordinate c the dimension
\* enumeration produces has new.grid.getCell(c) = rule(old.grid.getCell(c),
\* old.grid.neighbourPop(c)), both read from the superseded grid, and
\* new.oldGrid is old.grid.
C1_UpdateAppliesRule ==
  op = "makeUpdated" =>
    LET old == arg.state
        coords == Iterate(old.grid.dims)
    IN /\ ret.oldGrid = old.grid
       /\ \A i \in 1..Len(coords) :
            LET x == coords[i][1]
                y == coords[i][2]
                z == coords[i][3]
            IN getCell(ret.grid, x, y, z) =
                 ApplyRule(arg.rule, getCell(old.grid, x, y, z), neighbourPop(old.grid, x, y, z))

\* An update of a state that is itself in transition, which changes the grid.
C1_Witness ==
  /\ op = "makeUpdated"
  /\ arg.state.oldGrid # arg.state.grid
  /\ ret.grid # arg.state.grid
  /\ \E c \in Cuboid(ret.grid.dims) : isVisible(ret.grid, c[1], c[2], c[3])

\* n applications of makeUpdated in sequence.
RECURSIVE UpdatedTimes(_, _, _)
UpdatedTimes(state, rule, n) ==
  IF n = 0 THEN state ELSE UpdatedTimes(makeUpdated(state, rule), rule, n - 1)

\* C2: skipUpdates(initState, rule, n) is the state reached by n successive
\* applications of makeUpdated to initState (n = 0 returns initState itself).
C2_SkipAppliesNUpdates ==
  op = "skipUpdates" => ret = UpdatedTimes(arg.state, arg.rule, arg.iterations)

\* The live cells of the cuboid around c, other than c.
LiveNeighbours(g, x, y, z) ==
  {c \in Cuboid(g.dims) :
     /\ c # <<x, y, z>>
     /\ Abs(c[1] - x) <= 1 /\ Abs(c[2] - y) <= 1 /\ Abs(c[3] - z) <= 1
     /\ StoredCell(g, c) = g.states - 1}

\* C3: for a coordinate of the cuboid, neighbourPop is the number of live
\* cells of the cuboid at Chebyshev distance 1: the centre is not counted, a
\* position outside the cuboid adds nothing and no cell is counted twice.
C3_NeighbourPopCountsCuboid ==
  (op = "neighbourPop" /\ InCuboid(arg.grid.dims, arg.x, arg.y, arg.z)) =>
    ret = Cardinality(LiveNeighbours(arg.grid, arg.x, arg.y, arg.z))

\* C4: over the coordinates inBounds accepts, indexOf is injective and stays
\* inside [0, 8*X*Y*Z).
C4_IndexOfInjective ==
  (op = "indexOf" /\ ret.inBounds) =>
    /\ ret.index >= 0 /\ ret.index < Size(arg.grid.dims)
    /\ \A c \in ProbeCoords(arg.grid.dims) :
         (inBounds(arg.grid.dims, c[1], c[2], c[3]) /\ c # <<arg.x, arg.y, arg.z>>)
           => indexOf(arg.grid.dims, c[1], c[2], c[3]) # ret.index

\* C5: outside the cuboid getCell is absent and isVisible and isLive are false.
C5_OutsideIsAbsent ==
  (op \in {"getCell", "isVisible", "isLive"} /\ ~InCuboid(arg.grid.dims, arg.x, arg.y, arg.z)) =>
    IF op = "getCell" THEN ret = Null ELSE ret = FALSE

\* C6: after new = makeUpdated(old, rule) every cell of new.core is 1 when
\* the new cell is nonzero and the old cell was visible, and 0 otherwise.
C6_CoreIsBinaryMask ==
  op = "makeUpdated" =>
    /\ Len(ret.core.cells) = Size(ret.grid.dims)
    /\ \A i \in 1..Len(ret.core.cells) : ret.core.cells[i] \in {0, 1}
    /\ \A c \in Cuboid(ret.grid.dims) :
         getCell(ret.core, c[1], c[2], c[3]) =
           IF getCell(ret.grid, c[1], c[2], c[3]) > 0 /\ isVisible(arg.state.grid, c[1], c[2], c[3])
           THEN 1 ELSE 0

\* C7: makeFull(dims, states) holds states-1 in every cell (every cell of the
\* cuboid is live) and makeEmpty(dims, states) holds 0 in every cell.
C7_FullAndEmpty ==
  /\ op = "makeFull" =>
       /\ \A i \in 1..Len(ret.cells) : ret.cells[i] = arg.states - 1
       /\ \A c \in Cuboid(ret.dims) : isLive(ret, c[1], c[2], c[3])
  /\ op = "makeEmpty" =>
       \A i \in 1..Len(ret.cells) : ret.cells[i] = 0

\* C8: makeRandom(dims, prob, states) returns a grid whose state count is
\* states, whose cells are 0 or states-1, and where exactly the nonzero cells
\* are live.
C8_RandomUsesStates ==
  op = "makeRandom" =>
    /\ ret.states = arg.states
    /\ \A i \in 1..Len(ret.cells) : ret.cells[i] \in {0, arg.states - 1}
    /\ \A c \in Cuboid(ret.dims) :
         isLive(ret, c[1], c[2], c[3]) <=> (getCell(ret, c[1], c[2], c[3]) # 0)

\* The cell of a makeFromCell call appears (becomes visible) or disappears.
Appears(state, x, y, z) == ~isVisible(state.oldGrid, x, y, z) /\ isVisible(state.grid, x, y, z)

Disappears(state, x, y, z) == isVisible(state.oldGrid, x, y, z) /\ ~isVisible(state.grid, x, y, z)

\* The grid in which a cell whose visibility flips is visible.
VisibleGrid(state, x, y, z) == IF Appears(state, x, y, z) THEN state.grid ELSE state.oldGrid

\* The face an animated face of a flipped cell carries.
PresentFace(face) == IF face.type = "GROW" THEN face.end ELSE face.start

AbsentFace(face) == IF face.type = "GROW" THEN face.start ELSE face.end

FlippedKind(state, x, y, z) == IF Appears(state, x, y, z) THEN "GROW" ELSE "SHRINK"

\* C9 as stated: for a cell whose visibility flips, buildForCell returns faces
\* of the one matching kind, exactly one per orientation that is unoccluded in
\* the grid where the cell is visible.
C9_FlippedFacesUnoccludedOnly ==
  (op = "makeFromCell"
     /\ (Appears(arg.state, arg.x, arg.y, arg.z) \/ Disappears(arg.state, arg.x, arg.y, arg.z))) =>
    LET g == VisibleGrid(arg.state, arg.x, arg.y, arg.z)
        open == SelectSeq(SIDES, LAMBDA side : SideUnoccluded(g, arg.x, arg.y, arg.z, side))
    IN /\ Len(ret) = Len(open)
       /\ \A i \in 1..Len(ret) :
            /\ ret[i].type = FlippedKind(arg.state, arg.x, arg.y, arg.z)
            /\ i <= Len(open) => PresentFace(ret[i]).side = open[i]

\* C9 (amended): for a cell whose visibility flips, buildForCell returns faces
\* of the one matching kind, exactly one per supported orientation (-X, +Y, -Z,
\* in this order) whether or not its outward neighbour is visible, each at the
\* cell's coordinate with the AO computed against the grid where the cell is
\* visible, and with the other endpoint absent.
C9_FlippedFacesAllOrientations ==
  (op = "makeFromCell"
     /\ (Appears(arg.state, arg.x, arg.y, arg.z) \/ Disappears(arg.state, arg.x, arg.y, arg.z))) =>
    LET g == VisibleGrid(arg.state, arg.x, arg.y, arg.z)
    IN /\ Len(ret) = Len(SIDES)
       /\ \A i \in 1..Len(ret) :
            /\ ret[i].type = FlippedKind(arg.state, arg.x, arg.y, arg.z)
            /\ AbsentFace(ret[i]) = NullRef
            /\ PresentFace(ret[i]) =
                 Face(arg.x, arg.y, arg.z, SIDES[i], faceAOs(g, arg.x, arg.y, arg.z, SIDES[i]))

\* An appearing cell with an orientation whose outward neighbour is visible in
\* the new grid, and a shaded vertex.
C9_Witness ==
  /\ op = "makeFromCell"
  /\ Appears(arg.state, arg.x, arg.y, arg.z)
  /\ \E i \in 1..Len(SIDES) : ~SideUnoccluded(arg.state.grid, arg.x, arg.y, arg.z, SIDES[i])
  /\ Len(ret) = 3
  /\ \E i \in 1..Len(ret) : ret[i].end.aos # Ones

\* The AO tuples aos(p) mixes from and to, by kind.
AOFrom(face) == IF face.type = "GROW" THEN Ones ELSE face.start.aos

AOTo(face) == IF face.type = "SHRINK" THEN Ones ELSE face.end.aos

\* C10: for every animated face, component i and progress p,
\* aos(p)[i] = mix(a_i, b_i, smoothstep(p)), smoothstep applied once, where
\* (a, b) is (ones, end AOs) when appearing, (start AOs, ones) when
\* disappearing and (start AOs, end AOs) for the persisting kinds.
C10_AOsMixedBySmoothstepOnce ==
  op = "getAOs" =>
    /\ Len(ret) = 4 * Len(arg.faces)
    /\ \A f \in 1..Len(arg.faces) : \A i \in 1..4 :
         ret[4 * (f - 1) + i] =
           mix(AOFrom(arg.faces[f])[i], AOTo(arg.faces[f])[i], smoothStep(arg.progress))

\* The orientations of a cell whose outward neighbour is not visible in g.
OpenSides(g, x, y, z) == SelectSeq(SIDES, LAMBDA side : SideUnoccluded(g, x, y, z, side))

\* C11: buildForCell classifies by (oldGrid.isVisible, grid.isVisible):
\* (false,false) no faces; (false,true) only APPEARING faces; (true,false)
\* only DISAPPEARING faces; (true,true) only AO-TRANSITION faces, one for each
\* orientation whose outward neighbour is not visible in core, the start face
\* with the AO computed against oldGrid and the end face with the AO computed
\* against grid, both for the same cell and orientation.
C11_BuildForCellClassifies ==
  op = "makeFromCell" =>
    LET st == arg.state
        x == arg.x
        y == arg.y
        z == arg.z
        old == isVisible(st.oldGrid, x, y, z)
        new == isVisible(st.grid, x, y, z)
        open == OpenSides(st.core, x, y, z)
    IN /\ (~old /\ ~new) => ret = <<>>
       /\ (~old /\ new) => \A i \in 1..Len(ret) : ret[i].type = "GROW"
       /\ (old /\ ~new) => \A i \in 1..Len(ret) : ret[i].type = "SHRINK"
       /\ (old /\ new) =>
            /\ Len(ret) = Len(open)
            /\ \A i \in 1..Len(ret) :
                 /\ ret[i].type = "AO_ONLY"
                 /\ i <= Len(open) =>
                      /\ ret[i].start = Face(x, y, z, open[i], faceAOs(st.oldGrid, x, y, z, open[i]))
                      /\ ret[i].end = Face(x, y, z, open[i], faceAOs(st.grid, x, y, z, open[i]))

\* A persisting cell with a culled and an open orientation whose AO changes.
C11_Witness ==
  /\ op = "makeFromCell"
  /\ isVisible(arg.state.oldGrid, arg.x, arg.y, arg.z)
  /\ isVisible(arg.state.grid, arg.x, arg.y, arg.z)
  /\ Len(ret) \in {1, 2}
  /\ \E i \in 1..Len(ret) : ret[i].start.aos # ret[i].end.aos

\* A face that is present (neither null nor undefined).
IsFace(v) == v # NullRef /\ v # UndefinedRef

\* C12: in every GridState reached from makeFromGrid by makeUpdated steps,
\* every animated face of buildAll has the endpoints of its kind: APPEARING
\* start absent and end present, DISAPPEARING start present and end absent,
\* persisting kinds both present, at the same cell and orientation.
C12_WellFormedEndpoints ==
  \A i \in 1..Len(faces) :
    LET f == faces[i]
    IN /\ f.type \in {"GROW", "SHRINK", "TRANSITION", "AO_ONLY"}
       /\ f.type = "GROW" => (f.start = NullRef /\ IsFace(f.end))
       /\ f.type = "SHRINK" => (IsFace(f.start) /\ f.end = NullRef)
       /\ f.type \in {"TRANSITION", "AO_ONLY"} =>
            /\ IsFace(f.start)
            /\ IsFace(f.end)
            /\ f.start.x = f.end.x /\ f.start.y = f.end.y /\ f.start.z = f.end.z
            /\ f.start.side = f.end.side

\* After two updates, a face list with all three kinds that buildAll makes,
\* where a persisting cell has a neighbour that appeared.
C12_Witness ==
  /\ pc = "ready"
  /\ gen >= 2
  /\ \E i \in 1..Len(faces) : faces[i].type = "GROW"
  /\ \E i \in 1..Len(faces) : faces[i].type = "SHRINK"
  /\ \E i \in 1..Len(faces) :
       /\ faces[i].type = "AO_ONLY"
       /\ OpenSides(gridState.grid, faces[i].start.x, faces[i].start.y, faces[i].start.z)
            # OpenSides(gridState.core, faces[i].start.x, faces[i].start.y, faces[i].start.z)

\* The centre of the voxel of a face.
Centre(face) == <<Num(face.x), Num(face.y), Num(face.z)>>

\* C13: for every APPEARING face, vertices(0) are four vertices at the voxel
\* centre of its end face and vertices(1) are the end face's vertices at
\* scale 1.0.
C13_AppearingVerticesEnds ==
  op = "getVertices" =>
    /\ Len(ret) = 4 * Len(arg.faces)
    /\ \A f \in 1..Len(arg.faces) :
         arg.faces[f].type = "GROW" =>
           /\ arg.progress = Num(0) =>
                \A k \in 1..4 : ret[4 * (f - 1) + k] = Centre(arg.faces[f].end)
           /\ arg.progress = Num(1) =>
                \A k \in 1..4 :
                  ret[4 * (f - 1) + k] = FaceGetVertices(arg.faces[f].end, Num(1))[k]

\* A frame at progress 0 of a face list with an appearing face.
C13_Witness ==
  /\ op = "getVertices"
  /\ arg.progress = Num(0)
  /\ \E f \in 1..Len(arg.faces) :
       /\ arg.faces[f].type = "GROW"
       /\ ret[4 * (f - 1) + 1] = Centre(arg.faces[f].end)
       /\ FaceGetVertices(arg.faces[f].end, Num(1))[1] # Centre(arg.faces[f].end)

\* C14: makeFromCells(dims, cells, states) returns a grid iff
\* cells.length = 8*X*Y*Z and the absent value otherwise; a grid it returns
\* has the given cells, element for element.
C14_MakeFromCellsChecksLength ==
  op = "makeFromCells" =>
    /\ (ret # NullRef) <=> (Len(arg.cells) = 8 * arg.dims.X * arg.dims.Y * arg.dims.Z)
    /\ ret # NullRef =>
         /\ Len(ret.cells) = Len(arg.cells)
         /\ \A i \in 1..Len(arg.cells) : ret.cells[i] = arg.cells[i]

\* An array one element too long, with a nonzero cell, is rejected.
C14_Witness ==
  /\ op = "makeFromCells"
  /\ pc = "rejected"
  /\ ret = NullRef
  /\ Len(arg.cells) = Size(arg.dims) + 1
  /\ \E i \in 1..Len(arg.cells) : arg.cells[i] # 0

(***************************************************************************)
(* Iterating a GridDimensions with for-of, one next() call per step, and   *)
(* iterating it a second time.  arg holds the dimensions, the iterator's   *)
(* state and the triples of the first pass; ret the triples yielded so far.*)
(***************************************************************************)
DimsInputs == {[X |-> a, Y |-> b, Z |-> c] : a \in 1..MaxExtent, b \in 1..MaxExtent, c \in 1..MaxExtent}

\* [Symbol.iterator](): let [i, j, k] = [-this.X, -this.Y, -this.Z]
NewIterator(dims, first) ==
  [dims |-> dims, i |-> -dims.X, j |-> -dims.Y, k |-> -dims.Z, first |-> first]

InitDims ==
  /\ pc = "iterating"
  /\ gen = 0
  /\ gridState = NullRef
  /\ faces = <<>>
  /\ op = "iterate"
  /\ arg \in {NewIterator(dims, <<>>) : dims \in DimsInputs}
  /\ ret = <<>>

IterStep ==
  /\ pc = "iterating"
  /\ LET r == IterNext(arg.dims, arg.i, arg.j, arg.k)
     IN /\ arg' = [arg EXCEPT !.i = r.i, !.j = r.j, !.k = r.k]
        /\ IF r.done
           THEN pc' = "done" /\ ret' = ret
           ELSE pc' = pc /\ ret' = Append(ret, r.value)
  /\ UNCHANGED <<gen, gridState, faces, op>>

IterAgain ==
  /\ pc = "done"
  /\ gen = 0
  /\ pc' = "iterating"
  /\ gen' = gen + 1
  /\ arg' = NewIterator(arg.dims, ret)
  /\ ret' = <<>>
  /\ UNCHANGED <<gridState, faces, op>>

NextDims == IterStep \/ IterAgain

\* The loops run to completion: a step that can be taken is taken.
SpecDims == InitDims /\ [][NextDims]_vars /\ WF_vars(NextDims)

\* The n-th triple of the cuboid in lexicographic order, X outermost.
LexTriple(dims, n) ==
  << -dims.X + ((n - 1) \div (4 * dims.Y * dims.Z)),
     -dims.Y + (((n - 1) \div (2 * dims.Z)) % (2 * dims.Y)),
     -dims.Z + ((n - 1) % (2 * dims.Z)) >>

IterationInOrder ==
  /\ Len(ret) <= 8 * arg.dims.X * arg.dims.Y * arg.dims.Z
  /\ \A n \in 1..Len(ret) : ret[n] = LexTriple(arg.dims, n)
  /\ pc = "done" =>
       /\ Len(ret) = 8 * arg.dims.X * arg.dims.Y * arg.dims.Z
       /\ gen = 1 => ret = arg.first

\* C15: iterating a GridDimensions terminates after yielding exactly 8*X*Y*Z
\* triples, the triples of the cuboid in lexicographic order (X outermost, Z
\* innermost), each once and no other, and a second iteration yields the same
\* sequence again.
C15_IterationEnumeratesCuboid ==
  /\ []IterationInOrder
  /\ <>(pc = "done" /\ gen = 1)

\* The second pass over dimensions that are not a cube is done.
C15_Witness ==
  /\ pc = "done"
  /\ gen = 1
  /\ arg.dims.X # arg.dims.Z
  /\ arg.dims.Y # arg.dims.Z
  /\ Len(ret) = Size(arg.dims)
  /\ ret = arg.first

(***************************************************************************)
(* The faces of one cell: Face.makeFromCell(cellGrid, x, y, z, aoGrid) on  *)
(* two grids, then getVertices and getIndices of the faces it returned.    *)
(* arg holds the arguments of makeFromCell, faces the faces it returned.   *)
(***************************************************************************)
FaceDims == [X |-> 2, Y |-> 2, Z |-> 2]

\* The cells the faces are asked for: their whole neighbourhood is in bounds.
FaceCells == {<<0, 0, 0>>, <<-1, -1, -1>>}

Around(c) == ((c[1] - 1)..(c[1] + 1)) \X ((c[2] - 1)..(c[2] + 1)) \X ((c[3] - 1)..(c[3] + 1))

\* The nine cells around c one step along the normal of side.
Layer(c, side) ==
  {p \in Around(c) :
     \A a \in 1..3 : directions[side + 1][a] # 0 => p[a] = c[a] + directions[side + 1][a]}

\* The grid of FaceDims whose visible cells are those of the set.
GridOf(visible) ==
  makeFromCells(FaceDims,
                [i \in 1..Size(FaceDims) |->
                   IF \E p \in visible : indexOf(FaceDims, p[1], p[2], p[3]) + 1 = i THEN 1 ELSE 0],
                2)

\* Culling grids: any of the cell and its three outward neighbours visible.
CullGrids(c) ==
  {GridOf(visible) :
     visible \in SUBSET ({c} \cup {<<c[1] + directions[side + 1][1], c[2] + directions[side + 1][2],
                                     c[3] + directions[side + 1][3]>> : side \in {XNEG, YPOS, ZNEG}})}

\* AO grids: at most MaxOccluders visible cells, in the layer next to a side.
OccluderGrids(c) ==
  {GridOf(visible) :
     visible \in UNION {{v \in SUBSET Layer(c, side) : Cardinality(v) <= MaxOccluders} :
                          side \in {XNEG, YPOS, ZNEG}}}

InitFace ==
  /\ pc = "face"
  /\ gen = 0
  /\ gridState = NullRef
  /\ faces = <<>>
  /\ op = "none"
  /\ \E c \in FaceCells :
       \E cellGrid \in CullGrids(c), aoGrid \in OccluderGrids(c) :
         arg = [cellGrid |-> cellGrid, x |-> c[1], y |-> c[2], z |-> c[3], aoGrid |-> aoGrid]
  /\ ret = NullRef

FaceFromCell ==
  /\ pc = "face"
  /\ pc' = "built"
  /\ op' = "Face.makeFromCell"
  /\ ret' = FaceMakeFromCell(arg.cellGrid, arg.x, arg.y, arg.z, arg.aoGrid)
  /\ faces' = ret'
  /\ UNCHANGED <<gen, gridState, arg>>

\* A call on a face of the list; from keeps the grids the face was built from.
FaceCall(name, input, output) ==
  /\ pc = "built"
  /\ pc' = "called"
  /\ op' = name
  /\ arg' = [from |-> arg, input |-> input]
  /\ ret' = output
  /\ UNCHANGED <<gen, gridState, faces>>

FaceVertices(i) ==
  /\ i <= Len(faces)
  /\ FaceCall("Face.getVertices", [face |-> faces[i], scale |-> Num(1)],
              FaceGetVertices(faces[i], Num(1)))

FaceIndices(i, offset) ==
  /\ i <= Len(faces)
  /\ FaceCall("Face.getIndices", [face |-> faces[i], offset |-> offset],
              FaceGetIndices(faces[i], offset))

NextFace ==
  \/ FaceFromCell
  \/ \E i \in 1..Len(SIDES) : FaceVertices(i)
  \/ \E i \in 1..Len(SIDES), quad \in 0..(MaxQuads - 1) : FaceIndices(i, 4 * quad)

SpecFace == InitFace /\ [][NextFace]_vars

\* C16: Face.makeFromCell(cellGrid, x, y, z, aoGrid) returns no faces when the
\* cell is not visible in cellGrid; otherwise exactly one Face for each
\* orientation whose outward neighbour is not visible in cellGrid, in
\* orientation order, each with the AO computed from aoGrid for that cell and
\* orientation.
C16_FacesCulledByCellGridShadedByAoGrid ==
  op = "Face.makeFromCell" =>
    LET open == OpenSides(arg.cellGrid, arg.x, arg.y, arg.z)
    IN IF ~isVisible(arg.cellGrid, arg.x, arg.y, arg.z)
       THEN ret = <<>>
       ELSE /\ Len(ret) = Len(open)
            /\ \A i \in 1..Len(open) :
                 ret[i] = Face(arg.x, arg.y, arg.z, open[i],
                               faceAOs(arg.aoGrid, arg.x, arg.y, arg.z, open[i]))
            /\ \A i, j \in 1..Len(ret) : i < j => ret[i].side < ret[j].side

\* A visible cell with a culled orientation and a returned face whose AO
\* differs between the two grids.
C16_Witness ==
  /\ op = "Face.makeFromCell"
  /\ Len(ret) \in {1, 2}
  /\ \E i \in 1..Len(ret) :
       /\ ret[i].aos # Ones
       /\ ret[i].aos # faceAOs(arg.cellGrid, arg.x, arg.y, arg.z, ret[i].side)

\* The cell the face looks at, one step along its normal, moved one step in
\* the plane of the face towards the vertex v along each axis of axes.
Touching(face, v, axes) ==
  LET dir == directions[face.side + 1]
      centre == <<face.x, face.y, face.z>>
  IN [a \in 1..3 |->
        IF dir[a] # 0 THEN centre[a] + dir[a]
        ELSE IF a \notin axes THEN centre[a]
        ELSE IF RLess(v[a], Num(centre[a])) THEN centre[a] - 1
        ELSE centre[a] + 1]

InPlane(face) == {a \in 1..3 : directions[face.side + 1][a] = 0}

\* The 4-level occlusion of a vertex from its visible edge-adjacent cells and
\* its diagonal cell.
Level(sides, corner) ==
  IF sides = 2 THEN Rat(1, 4)
  ELSE IF sides = 1 /\ corner THEN Rat(1, 2)
  ELSE IF sides = 1 \/ corner THEN Rat(3, 4)
  ELSE Num(1)

VertexLevel(aoGrid, face, v) ==
  LET edge == {Touching(face, v, {a}) : a \in InPlane(face)}
      diagonal == Touching(face, v, InPlane(face))
  IN Level(Cardinality({p \in edge : isVisible(aoGrid, p[1], p[2], p[3])}),
           isVisible(aoGrid, diagonal[1], diagonal[2], diagonal[3]))

\* C17: for every face built from a grid, of any of the three orientations,
\* and each vertex index k, aos[k] is the 4-level value (both sides 1/4, one
\* side plus corner 1/2, exactly one of the three 3/4, none 1) of the two
\* edge-adjacent cells and the diagonal cell, in the layer one step along the
\* face normal, that touch the k-th vertex getVertices returns.
C17_AOOrderMatchesVertexOrder ==
  op = "Face.getVertices" =>
    \A k \in 1..4 :
      arg.input.face.aos[k] = VertexLevel(arg.from.aoGrid, arg.input.face, ret[k])

\* The vertices of a face with three different AO values.
C17_Witness ==
  /\ op = "Face.getVertices"
  /\ Len(ret) = 4
  /\ Cardinality({arg.input.face.aos[k] : k \in 1..4}) >= 3

\* The two triangles of six indices, as sets of vertices.
Triangles(indices) ==
  << {indices[1], indices[2], indices[3]}, {indices[4], indices[5], indices[6]} >>

\* C18: Face.getIndices(offset) returns 6 indices forming two triangles that
\* use only offset..offset+3, use all four of them, and share exactly one
\* diagonal of the quad: the one between vertices 1 and 2 when
\* aos[1]+aos[2] > aos[0]+aos[3], the one between vertices 0 and 3 otherwise,
\* every tie included.
C18_IndicesSplitAlongBrighterDiagonal ==
  op = "Face.getIndices" =>
    LET aos == arg.input.face.aos
        o == arg.input.offset
        t == Triangles(ret)
    IN /\ Len(ret) = 6
       /\ {ret[i] : i \in 1..6} = o..(o + 3)
       /\ Cardinality(t[1]) = 3
       /\ Cardinality(t[2]) = 3
       /\ t[1] \cap t[2] = IF RLess(RAdd(aos[1], aos[4]), RAdd(aos[2], aos[3]))
                           THEN {o + 1, o + 2}
                           ELSE {o, o + 3}

\* The indices of a second quad whose AO values differ and tie.
C18_Witness ==
  /\ op = "Face.getIndices"
  /\ arg.input.offset > 0
  /\ arg.input.face.aos # Ones
  /\ RAdd(arg.input.face.aos[1], arg.input.face.aos[4])
       = RAdd(arg.input.face.aos[2], arg.input.face.aos[3])
  /\ Triangles(ret)[1] \cap Triangles(ret)[2] = {arg.input.offset, arg.input.offset + 3}

\* The tie-break: the diagonal between vertices 1 and 2 of the quad at offset
\* when their AO sum is the higher one, the diagonal between 0 and 3 otherwise.
SelectedDiagonal(aos, offset) ==
  IF RLess(RAdd(aos[1], aos[4]), RAdd(aos[2], aos[3]))
  THEN {offset + 1, offset + 2}
  ELSE {offset, offset + 3}

\* The diagonal the two triangles of the i-th quad of a flat index list share.
SplitDiagonal(indices, i) ==
  LET t == Triangles(SubSeq(indices, 6 * (i - 1) + 1, 6 * i))
  IN t[1] \cap t[2]

\* C19 as stated: for every AnimFace of a reachable GridState the quad is
\* split along the diagonal the tie-break selects for the settled AO values
\* getAOs(1).
C19_DiagonalFollowsSettledAO ==
  op = "getIndices" =>
    \A i \in 1..Len(arg.faces) :
      SplitDiagonal(ret, i) = SelectedDiagonal(getAOs(arg.faces[i], Num(1)), 4 * (i - 1))

\* C19 amended: the quad is split along the diagonal the tie-break selects
\* for the settled AO values getAOs(1) when the face is APPEARING, and for the
\* initial AO values getAOs(0) when it is of any other kind.
C19_DiagonalFollowsPresentFaceAO ==
  op = "getIndices" =>
    \A i \in 1..Len(arg.faces) :
      SplitDiagonal(ret, i) =
        SelectedDiagonal(IF arg.faces[i].type = "GROW"
                         THEN getAOs(arg.faces[i], Num(1))
                         ELSE getAOs(arg.faces[i], Num(0)),
                         4 * (i - 1))

\* The indices of a list with a persisting face whose initial and settled AO
\* values select different diagonals, and an APPEARING face split between
\* vertices 1 and 2.
C19_Witness ==
  /\ op = "getIndices"
  /\ \E i \in 1..Len(arg.faces) :
       /\ arg.faces[i].type = "AO_ONLY"
       /\ SelectedDiagonal(getAOs(arg.faces[i], Num(0)), 0)
            # SelectedDiagonal(getAOs(arg.faces[i], Num(1)), 0)
  /\ \E i \in 1..Len(arg.faces) :
       /\ arg.faces[i].type = "GROW"
       /\ SplitDiagonal(ret, i) = {4 * (i - 1) + 1, 4 * (i - 1) + 2}

\* The face list has a face of the cell c and the orientation side that, at
\* progress, has the vertices quad and the AO values shade.
Shown(list, c, side, progress, quad, shade) ==
  \E i \in 1..Len(list) :
    /\ PresentFace(list[i]).x = c[1]
    /\ PresentFace(list[i]).y = c[2]
    /\ PresentFace(list[i]).z = c[3]
    /\ PresentFace(list[i]).side = side
    /\ getVertices(list[i], progress) = quad
    /\ getAOs(list[i], progress) = shade

\* The cells and orientations exposed in a grid.
Exposed(g) ==
  {e \in Cuboid(g.dims) \X {XNEG, YPOS, ZNEG} :
     /\ isVisible(g, e[1][1], e[1][2], e[1][3])
     /\ SideUnoccluded(g, e[1][1], e[1][2], e[1][3], e[2])}

FullQuad(c, side) == FaceGetVertices(Face(c[1], c[2], c[3], side, Ones), Num(1))

\* C20: across a generation boundary s -> s' = makeUpdated(s, rule), for every
\* cell visible in s.grid and every orientation whose outward neighbour is not
\* visible in s.grid, the faces of s have a face for that cell and orientation
\* whose vertices at progress 1 are the full-size quad and whose AO values at
\* progress 1 are those computed against s.grid, and the faces of s' have a
\* face for the same cell and orientation with the same vertices and AO
\* values at progress 0.
C20_NoJumpAcrossGenerations ==
  [][gen' # gen =>
       \A e \in Exposed(gridState.grid) :
         /\ Shown(faces, e[1], e[2], Num(1), FullQuad(e[1], e[2]),
                  faceAOs(gridState.grid, e[1][1], e[1][2], e[1][3], e[2]))
         /\ Shown(faces', e[1], e[2], Num(0), FullQuad(e[1], e[2]),
                  faceAOs(gridState.grid, e[1][1], e[1][2], e[1][3], e[2]))]_vars

\* A second generation boundary crossed with a shaded exposed face of the old
\* grid, a cell that persists next to one that appears, and a cell that
\* disappears.
C20_Witness ==
  /\ op = "makeUpdated"
  /\ gen >= 2
  /\ \E e \in Exposed(arg.state.grid) :
       faceAOs(arg.state.grid, e[1][1], e[1][2], e[1][3], e[2]) # Ones
  /\ \E e \in Exposed(arg.state.grid) :
       /\ isVisible(gridState.grid, e[1][1], e[1][2], e[1][3])
       /\ ~SideUnoccluded(gridState.grid, e[1][1], e[1][2], e[1][3], e[2])
  /\ \E i \in 1..Len(faces) : faces[i].type = "SHRINK"

====
